---- MODULE Spec2Model ----
(***************************************************************************)
(* A model of glazier's wayland backend event-loop core                    *)
(* (src/src/backend/wayland/application.rs): the timer heap, the surface   *)
(* registry with the active-surface stack, the shutdown flag and the run   *)
(* loop with its timer-expiry handler.                                     *)
(*                                                                         *)
(* Everything runs on one thread.  Application code (schedule, register,   *)
(* unregister, activate, quit) runs either before run() is entered or      *)
(* inside a callback that the loop invokes (a platform event handler, a    *)
(* window's timer(token) handler, a window's deferred tasks).              *)
(***************************************************************************)
EXTENDS Integers, Sequences, FiniteSets, TLC

\* ------------------------------------------------------------------ bounds
\* Surface identifiers are 0..MaxId (u64 in the source; 0 is a legal u64).
MaxId == 2
\* The active-surface stack holds at most MaxStack identifiers.
MaxStack == 3
\* Instants are 0..MaxTime.
MaxTime == 2
\* At most MaxTimers timers are ever scheduled (TimerToken values 1..MaxTimers).
MaxTimers == 3
\* At most MaxArmed timeouts are armed on the timer wake source at a time.
MaxArmed == 2
\* The timer specification uses the surface identifiers 0..TimerMaxId.
TimerMaxId == 1
\* The bounds of the deferred-task flush specification.
FlushMaxId == 1
FlushMaxTime == 1
FlushMaxTimers == 1
FlushMaxArmed == 1
\* The bounds of the cancellation specification.
QuitMaxTime == 1
QuitMaxTimers == 3
QuitMaxArmed == 2
\* The bounds of the whole-driver specification.
DriverMaxId == 0
DriverMaxTime == 1
DriverMaxTimers == 1
DriverMaxStack == 1
DriverMaxArmed == 1

Ids == 0..MaxId
\* Window handle values (WindowHandle); two, so that "the latest" is visible.
Handles == {"h1", "h2"}

\* Option<T>
None == <<>>
Some(x) == <<x>>

\* The value of `handles` at an identifier that is not a key of the map.
Absent == "absent"

VARIABLES
    handles,            \* Data::handles: id -> WindowHandle, Absent where no key
    shutdown,           \* Data::shutdown
    active_surface_id,  \* Data::active_surface_id: VecDeque<u64>, front first
    timer_handle,       \* timeouts armed on Data::timer_handle, in arming order
    timer_source,       \* Data::timer_source: "Some" or "None"
    timers,             \* Data::timers: the BinaryHeap<Timer>, as a set
    next_token,         \* the next TimerToken value
    clock,              \* what Instant::now() returns
    rpc,                \* position of Application::run
    hpc,                \* position of Data::handle_timer_event
    cb,                 \* the callback in progress, or "none"
    now,                \* handle_timer_event's local `now`
    expired_timers,     \* handle_timer_event's local `expired_timers` (rest to deliver)
    snapshot,           \* the rest of the handles_iter() iteration
    heap0,              \* history: the heap when the current handling started
    log,                \* history: what the current handling has done so far
    buttons,            \* a PointerButtons value (the u8 of the set), mutated in place
    built,              \* the PointerButtons value a builder method returned last
    inclination,        \* a PenInclination value
    converted,          \* what tilt() or azimuth_altitude() returned for it last
    origin              \* history: the inclination whose angles were stored back

vars == <<handles, shutdown, active_surface_id, timer_handle, timer_source,
          timers, next_token, clock, rpc, hpc, cb, now, expired_timers,
          snapshot, heap0, log, buttons, built, inclination, converted,
          origin>>

\* The state of the application driver (application.rs).
app_vars == <<handles, shutdown, active_surface_id, timer_handle, timer_source,
              timers, next_token, clock, rpc, hpc, cb, now, expired_timers,
              snapshot, heap0, log>>

\* The values of the pointer types (pointer.rs).
pointer_vars == <<buttons, built, inclination, converted, origin>>

registry_vars == <<handles, active_surface_id>>
timer_vars == <<timers, next_token>>
handler_vars == <<hpc, now, expired_timers, snapshot, heap0, log>>

\* ------------------------------------------------------------- pure helpers
Range(s) == {s[i] : i \in 1..Len(s)}

SetMin(S) == CHOOSE m \in S : \A x \in S : m <= x

RECURSIVE SortedSeq(_)
SortedSeq(S) == IF S = {} THEN <<>>
                ELSE <<SetMin(S)>> \o SortedSeq(S \ {SetMin(S)})

\* s without every occurrence of x (VecDeque::retain(|e| e != x))
RECURSIVE Without(_, _)
Without(s, x) == IF s = <<>> THEN <<>>
                 ELSE IF Head(s) = x THEN Without(Tail(s), x)
                 ELSE <<Head(s)>> \o Without(Tail(s), x)

\* std::cmp::Ordering as -1 (Less), 0 (Equal), 1 (Greater)
Cmp(a, b) == IF a < b THEN -1 ELSE IF a = b THEN 0 ELSE 1
Reverse(o) == 0 - o

\* Instant - Instant as a signed difference.
InstantSubSigned(a, b) == a - b

\* Instant - Instant: Instant::duration_since saturates to zero.
InstantSub(a, b) == IF a >= b THEN a - b ELSE 0

\* ------------------------------------------------------------------- Timer
\* Timer::new(id, deadline): backend::shared::Timer::new draws a fresh token.
TimerNew(id, deadline) == [deadline |-> deadline, data |-> id, token |-> next_token]

\* impl Ord for Timer, with the .reverse() left out.
TimerCmpNoReverse(a, b) == Cmp(a.deadline, b.deadline)

\* impl Ord for Timer: earliest deadline compares greatest.
TimerCmp(a, b) == Reverse(Cmp(a.deadline, b.deadline))

\* BinaryHeap::peek: a greatest element under Ord (any of them on a tie).
HeapPeek(heap) == {t \in heap : \A u \in heap : TimerCmp(t, u) >= 0}

\* ----------------------------------------------------------------- registry
\* The keys of Data::handles.
Registered == {id \in Ids : handles[id] # Absent}

\* handles.borrow().get(&id).cloned(), reading the greatest key instead of id.
LookupLast(id) == IF handles[MaxId] # Absent THEN Some(handles[MaxId]) ELSE None

\* handles.borrow().get(&id).cloned()
Lookup(id) == IF handles[id] # Absent THEN Some(handles[id]) ELSE None

\* Data::current_window_id: the front of the stack, or DEFAULT = 0.
current_window_id == IF Len(active_surface_id) > 0 THEN active_surface_id[1] ELSE 0

\* Data::acquire_current_window
acquire_current_window == Lookup(current_window_id)

\* Data::handles_iter: a clone of the map, iterated in key order.
handles_iter == [i \in 1..Cardinality(Registered) |->
                    <<SortedSeq(Registered)[i], handles[SortedSeq(Registered)[i]]>>]

\* Application code runs before run() or inside a callback of the loop.
InAppCode == rpc = "new" \/ cb # "none"

\* ---------------------------------------------------------- PointerButtons
\* enum PointerButton, #[repr(u8)]: the discriminants.
ButtonNone == 0
Left == 1
Right == 2
Middle == 3
X1 == 4
X2 == 5
Eraser == 6
PointerButton == {ButtonNone, Left, Right, Middle, X1, X2, Eraser}

\* u8 arithmetic: the bits of n, the u8 of a set of bit positions, |, &, !, <<.
Bits(n) == {k \in 0..7 : (n \div (2 ^ k)) % 2 = 1}

RECURSIVE U8(_)
U8(S) == IF S = {} THEN 0
         ELSE LET k == CHOOSE x \in S : TRUE IN (2 ^ k) + U8(S \ {k})

BitOr(a, b) == U8(Bits(a) \cup Bits(b))
BitAnd(a, b) == U8(Bits(a) \cap Bits(b))
BitNot(a) == 255 - a
Shl(a, k) == (a * (2 ^ k)) % 256
Min(a, b) == IF a <= b THEN a ELSE b

\* The mask of a button without the min: 1 << button as u8.
ButtonMaskNoMin(button) == Shl(1, button)

\* 1.min(button as u8) << button as u8
ButtonMask(button) == Shl(Min(1, button), button)

\* PointerButtons::new
PointerButtonsNew == 0

\* PointerButtons::with, and the value insert leaves in self.
with(s, button) == BitOr(s, ButtonMask(button))

\* PointerButtons::without, and the value remove leaves in self.
without(s, button) == BitAnd(s, BitNot(ButtonMask(button)))

\* PointerButtons::contains
contains(s, button) == BitAnd(s, ButtonMask(button)) # 0

\* PointerButtons::is_empty
is_empty(s) == s = 0

\* PointerButtons::is_superset
is_superset(s, other) == BitAnd(s, other) = other

\* PointerButtons::union, and the value extend leaves in self.
union(s, other) == BitOr(s, other)

\* PointerButtons::count
count(s) == Cardinality(Bits(s))

\* ---------------------------------------------------------- PenInclination
\* Angles are whole degrees: the f32 radians r of the source are the degrees
\* d with r = d * PI / 180.
\* PenInclination::from_tilt
from_tilt(tilt_x, tilt_y) == [kind |-> "Tilt", a |-> tilt_x, b |-> tilt_y]

\* PenInclination::from_angle
from_angle(azimuth_angle, altitude_angle) ==
    [kind |-> "AzimuthAltitude", a |-> azimuth_angle, b |-> altitude_angle]

\* No conversion has been asked of the inclination yet.
NoConversion == [kind |-> "none", a |-> 0, b |-> 0]

\* The tilts and the angles of the inclinations that are converted.
TiltValues == {15 * k : k \in -6..6}
AzimuthValues == {15 * k : k \in 0..24}
AltitudeValues == {0, 30, 45, 60, 90}

\* f32 values are fixed-point numbers with an order: [o, v] is v / Scale
\* times eps^o, eps = 4.37e-8 being what f32 makes of cos(PI / 2.0).  The
\* order keeps apart what f32 keeps apart: sin(PI) is not 0 but -2 eps,
\* tan(PI / 2.0) is not infinite but -1 / eps.
Scale == 1000
Num(v) == [o |-> 0, v |-> v]
Tiny(v) == [o |-> 1, v |-> v]
Huge(v) == [o |-> -1, v |-> v]

Abs(x) == IF x < 0 THEN 0 - x ELSE x
Sign(x) == IF x < 0 THEN -1 ELSE IF x > 0 THEN 1 ELSE 0

\* p / q rounded to the nearest integer, halves away from zero.
QuotRound(p, q) == Sign(p) * Sign(q) * ((2 * Abs(p) + Abs(q)) \div (2 * Abs(q)))

\* x / y of f32 (y is not zero where the source divides).
Div(x, y) == IF x.v = 0 THEN Num(0)
             ELSE [o |-> x.o - y.o, v |-> QuotRound(x.v * Scale, y.v)]

\* f32::sin and f32::cos of d degrees (d whole in the first quadrant, a
\* multiple of 15 beyond it), f32::tan of d degrees, d a multiple of 15.
\* SinTable is sin(d degrees) * Scale for d = 1..90.
SinTable == <<
            17, 35, 52, 70, 87, 105, 122, 139, 156, 174, 191, 208, 225, 242,
            259, 276, 292, 309, 326, 342, 358, 375, 391, 407, 423, 438, 454,
            469, 485, 500, 515, 530, 545, 559, 574, 588, 602, 616, 629, 643,
            656, 669, 682, 695, 707, 719, 731, 743, 755, 766, 777, 788, 799,
            809, 819, 829, 839, 848, 857, 866, 875, 883, 891, 899, 906, 914,
            921, 927, 934, 940, 946, 951, 956, 961, 966, 970, 974, 978, 982,
            985, 988, 990, 993, 995, 996, 998, 999, 999, 1000, 1000>>
SinQ == [d \in 0..90 |-> IF d = 0 THEN 0 ELSE SinTable[d]]
TanQ == (0 :> 0 @@ 15 :> 268 @@ 30 :> 577 @@ 45 :> 1000 @@ 60 :> 1732 @@
         75 :> 3732)

Sin(d) == IF d = 180 THEN Tiny(-2000)
          ELSE IF d = 360 THEN Tiny(4000)
          ELSE Num(IF d <= 90 THEN SinQ[d]
                   ELSE IF d < 180 THEN SinQ[180 - d]
                   ELSE IF d <= 270 THEN 0 - SinQ[d - 180]
                   ELSE 0 - SinQ[360 - d])

Cos(d) == IF d = 90 THEN Tiny(-1000)
          ELSE IF d = 270 THEN Tiny(273)
          ELSE Num(IF d < 90 THEN SinQ[90 - d]
                   ELSE IF d <= 180 THEN 0 - SinQ[d - 90]
                   ELSE IF d < 270 THEN 0 - SinQ[270 - d]
                   ELSE SinQ[d - 270])

TanPos(d) == IF d = 90 THEN Huge(-1000)
             ELSE IF d = 180 THEN Tiny(2000)
             ELSE IF d = 270 THEN Huge(-3666)
             ELSE IF d = 360 THEN Tiny(4000)
             ELSE Num(IF d % 180 < 90 THEN TanQ[d % 180]
                      ELSE 0 - TanQ[180 - (d % 180)])

Neg(x) == [o |-> x.o, v |-> 0 - x.v]

Tan(d) == IF d < 0 THEN Neg(TanPos(0 - d)) ELSE TanPos(d)

\* tan((d - 0.5) degrees) * Scale for d = 1..90: the tangents at which the
\* arc tangent, rounded to whole degrees, steps from d - 1 to d.
TanMid == <<9, 26, 44, 61, 79, 96, 114, 132, 149, 167, 185, 203, 222, 240, 259,
            277, 296, 315, 335, 354, 374, 394, 414, 435, 456, 477, 499, 521,
            543, 566, 589, 613, 637, 662, 687, 713, 740, 767, 795, 824, 854,
            885, 916, 949, 983, 1018, 1054, 1091, 1130, 1171, 1213, 1257,
            1303, 1351, 1402, 1455, 1511, 1570, 1632, 1698, 1767, 1842, 1921,
            2006, 2097, 2194, 2300, 2414, 2539, 2675, 2824, 2989, 3172, 3376,
            3606, 3867, 4165, 4511, 4915, 5396, 5976, 6691, 7596, 8777, 10385,
            12706, 16350, 22904, 38188, 114589>>

\* f32::atan in degrees, rounded to whole degrees.
AtanDeg(x) == IF x.v = 0 \/ x.o > 0 THEN 0
              ELSE IF x.o < 0 THEN Sign(x.v) * 90
              ELSE Sign(x.v) * Cardinality({d \in 1..90 : TanMid[d] <= Abs(x.v)})

\* f32::atan2(y, x) in degrees, in -180..180.
Atan2Deg(y, x) ==
    IF x.v > 0 THEN AtanDeg(Div(y, x))
    ELSE IF x.v < 0 THEN (IF y.v >= 0 THEN AtanDeg(Div(y, x)) + 180
                          ELSE AtanDeg(Div(y, x)) - 180)
    ELSE 90 * Sign(y.v)

\* x * x + y * y and f32::sqrt of numbers of order 0.
SumSq(x, y) == Num(((x.v * x.v) + (y.v * y.v)) \div Scale)
Sqrt(x) == Num(CHOOSE r \in 0..(6 * Scale) :
                  r * r <= x.v * Scale /\ x.v * Scale < (r + 1) * (r + 1))

\* The boundary test with && in place of ||.
OnBoundaryBoth(tilt_x, tilt_y) == Abs(tilt_x) = 90 /\ Abs(tilt_y) = 90

\* tilt_x.abs() == 90 || tilt_y.abs() == 90
OnBoundary(tilt_x, tilt_y) == Abs(tilt_x) = 90 \/ Abs(tilt_y) = 90

\* PenInclination::tilt_to_spherical; azimuth and altitude in degrees.
tilt_to_spherical(tilt_x, tilt_y) ==
    LET tilt_x_rad == tilt_x
        tilt_y_rad == tilt_y
        azimuth_angle ==
            IF tilt_x = 0
            THEN (IF tilt_y > 0 THEN 90 ELSE IF tilt_y < 0 THEN 270 ELSE 0)
            ELSE IF tilt_y = 0
            THEN (IF tilt_x < 0 THEN 180 ELSE 0)
            ELSE IF OnBoundary(tilt_x, tilt_y)
            THEN 0
            ELSE LET tan_x == Tan(tilt_x_rad)
                     tan_y == Tan(tilt_x_rad)
                     at == Atan2Deg(tan_y, tan_x)
                 IN  IF at < 0 THEN at + 360 ELSE at
        altitude_angle ==
            IF OnBoundary(tilt_x, tilt_y)
            THEN 0
            ELSE IF tilt_x = 0
            THEN 90 - Abs(tilt_y_rad)
            ELSE IF tilt_y = 0
            THEN 90 - Abs(tilt_x_rad)
            ELSE LET tan_x == Tan(tilt_x_rad)
                     tan_y == Tan(tilt_x_rad)
                 IN  AtanDeg(Div(Num(Scale), Sqrt(SumSq(tan_x, tan_y))))
    IN  [kind |-> "angle", a |-> azimuth_angle, b |-> altitude_angle]

\* PenInclination::spherical_to_tilt, its parameters in the order of the
\* source: the altitude first.
spherical_to_tilt(altitude_angle, azimuth_angle) ==
    LET \* the ifs of the plane case one after the other: the last one that
        \* applies has the last word
        plane_x ==
            IF azimuth_angle > 270 /\ azimuth_angle < 360 THEN 90
            ELSE IF azimuth_angle > 180 /\ azimuth_angle < 270 THEN -90
            ELSE IF azimuth_angle > 90 /\ azimuth_angle < 180 THEN -90
            ELSE IF azimuth_angle > 0 /\ azimuth_angle < 90 THEN 90
            ELSE IF azimuth_angle = 180 THEN -90
            ELSE IF azimuth_angle = 0 \/ azimuth_angle = 360 THEN 90
            ELSE 0
        plane_y ==
            IF azimuth_angle > 270 /\ azimuth_angle < 360 THEN -90
            ELSE IF azimuth_angle > 180 /\ azimuth_angle < 270 THEN -90
            ELSE IF azimuth_angle > 90 /\ azimuth_angle < 180 THEN 90
            ELSE IF azimuth_angle > 0 /\ azimuth_angle < 90 THEN 90
            ELSE IF azimuth_angle = 270 THEN -90
            ELSE IF azimuth_angle = 90 THEN 90
            ELSE 0
        tan_alt == Tan(altitude_angle)
    IN  IF altitude_angle # 0
        THEN [kind |-> "tilt",
              a |-> AtanDeg(Div(Cos(azimuth_angle), tan_alt)),
              b |-> AtanDeg(Div(Sin(azimuth_angle), tan_alt))]
        ELSE [kind |-> "tilt", a |-> plane_x, b |-> plane_y]

\* PenInclination::tilt: a stored tilt as it is, stored angles through
\* spherical_to_tilt(azimuth_angle, altitude_angle), the azimuth first.
tilt(self) ==
    IF self.kind = "Tilt"
    THEN [kind |-> "tilt", a |-> self.a, b |-> self.b]
    ELSE spherical_to_tilt(self.a, self.b)

\* azimuth_altitude handing the tilts over in the wrong order.
azimuth_altitudeSwapped(self) ==
    IF self.kind = "Tilt"
    THEN tilt_to_spherical(self.b, self.a)
    ELSE [kind |-> "angle", a |-> self.a, b |-> self.b]

\* PenInclination::azimuth_altitude
azimuth_altitude(self) ==
    IF self.kind = "Tilt"
    THEN tilt_to_spherical(self.a, self.b)
    ELSE [kind |-> "angle", a |-> self.a, b |-> self.b]

\* ------------------------------------------------------------------- Init
Init ==
    /\ handles = [id \in Ids |-> Absent]
    /\ shutdown = FALSE
    /\ active_surface_id = <<>>
    /\ timer_handle = <<>>
    /\ timer_source = "Some"
    /\ timers = {}
    /\ next_token = 1
    /\ clock = 0
    /\ rpc = "new"
    /\ hpc = "idle"
    /\ cb = "none"
    /\ now = 0
    /\ expired_timers = <<>>
    /\ snapshot = <<>>
    /\ heap0 = {}
    /\ log = <<>>
    /\ buttons = PointerButtonsNew
    /\ built = PointerButtonsNew
    /\ inclination = from_angle(0, 90)
    /\ converted = NoConversion
    /\ origin = NoConversion

\* ------------------------------------------------- application operations
\* register(id, handle): handles.insert(id, handle), inserts or replaces.
Register(id, h) ==
    /\ InAppCode
    /\ handles' = [handles EXCEPT ![id] = h]
    /\ UNCHANGED <<shutdown, active_surface_id, timer_handle, timer_source,
                   timers, next_token, clock, rpc, cb>>
    /\ UNCHANGED handler_vars
    /\ UNCHANGED pointer_vars

\* unregister(id) that removes the entry and leaves the stack alone.
UnregisterNoPrune(id) ==
    /\ InAppCode
    /\ handles' = [handles EXCEPT ![id] = Absent]
    /\ UNCHANGED <<shutdown, active_surface_id, timer_handle, timer_source,
                   timers, next_token, clock, rpc, cb>>
    /\ UNCHANGED handler_vars
    /\ UNCHANGED pointer_vars

\* unregister(id): removes the entry and prunes id from the active-surface
\* stack wherever it appears; removing an absent id changes nothing.
Unregister(id) ==
    /\ InAppCode
    /\ handles' = [handles EXCEPT ![id] = Absent]
    /\ active_surface_id' = Without(active_surface_id, id)
    /\ UNCHANGED <<shutdown, timer_handle, timer_source,
                   timers, next_token, clock, rpc, cb>>
    /\ UNCHANGED handler_vars
    /\ UNCHANGED pointer_vars

\* A live surface becomes the active one: active_surface_id.push_front(id).
Activate(id) ==
    /\ InAppCode
    /\ id \in Registered
    /\ active_surface_id' = <<id>> \o active_surface_id
    /\ UNCHANGED <<handles, shutdown, timer_handle, timer_source,
                   timers, next_token, clock, rpc, cb>>
    /\ UNCHANGED handler_vars
    /\ UNCHANGED pointer_vars

\* schedule(id, deadline): timers.push(Timer::new(id, deadline)).
Schedule(id, deadline) ==
    /\ InAppCode
    /\ timers' = timers \cup {TimerNew(id, deadline)}
    /\ next_token' = next_token + 1
    /\ UNCHANGED <<handles, shutdown, active_surface_id, timer_handle,
                   timer_source, clock, rpc, cb>>
    /\ UNCHANGED handler_vars
    /\ UNCHANGED pointer_vars

\* Application::quit that toggles the flag.
QuitToggle ==
    /\ InAppCode
    /\ shutdown' = ~shutdown
    /\ UNCHANGED <<handles, active_surface_id, timer_handle, timer_source,
                   timers, next_token, clock, rpc, cb>>
    /\ UNCHANGED handler_vars
    /\ UNCHANGED pointer_vars

\* Application::quit
Quit ==
    /\ InAppCode
    /\ shutdown' = TRUE
    /\ UNCHANGED <<handles, active_surface_id, timer_handle, timer_source,
                   timers, next_token, clock, rpc, cb>>
    /\ UNCHANGED handler_vars
    /\ UNCHANGED pointer_vars

\* ------------------------------------------------------- Application::run
\* run() that reads the timer source and leaves it in place.
RunKeepSource ==
    /\ rpc \in {"new", "exited"}
    /\ cb = "none"
    /\ timer_source = "Some"
    /\ rpc' = "poll"
    /\ UNCHANGED <<handles, shutdown, active_surface_id, timer_handle,
                   timer_source, timers, next_token, clock, cb>>
    /\ UNCHANGED handler_vars
    /\ UNCHANGED pointer_vars

\* run(): timer_source.borrow_mut().take().unwrap() finds the source.
Run ==
    /\ rpc \in {"new", "exited"}
    /\ cb = "none"
    /\ timer_source = "Some"
    /\ timer_source' = "None"
    /\ rpc' = "poll"
    /\ UNCHANGED <<handles, shutdown, active_surface_id, timer_handle,
                   timers, next_token, clock, cb>>
    /\ UNCHANGED handler_vars
    /\ UNCHANGED pointer_vars

\* run(): take() yields None and unwrap() panics.
RunNoSource ==
    /\ rpc \in {"new", "exited"}
    /\ cb = "none"
    /\ timer_source = "None"
    /\ rpc' = "panicked"
    /\ UNCHANGED <<handles, shutdown, active_surface_id, timer_handle,
                   timer_source, timers, next_token, clock, cb>>
    /\ UNCHANGED handler_vars
    /\ UNCHANGED pointer_vars

\* event_loop.dispatch(16ms, ..): the poll returns after dt, without error.
Poll(dt) ==
    /\ rpc = "poll"
    /\ clock' = clock + dt
    /\ rpc' = "events"
    /\ UNCHANGED <<handles, shutdown, active_surface_id, timer_handle,
                   timer_source, timers, next_token, cb>>
    /\ UNCHANGED handler_vars
    /\ UNCHANGED pointer_vars

\* The dispatch error dropped: the tick goes on to the shutdown check.
DispatchErrorIgnored ==
    /\ rpc = "poll"
    /\ rpc' = "check"
    /\ UNCHANGED <<handles, shutdown, active_surface_id, timer_handle,
                   timer_source, timers, next_token, clock, cb>>
    /\ UNCHANGED handler_vars
    /\ UNCHANGED pointer_vars

\* event_loop.dispatch(..) returns Err and .unwrap() panics.
DispatchError ==
    /\ rpc = "poll"
    /\ rpc' = "panicked"
    /\ UNCHANGED <<handles, shutdown, active_surface_id, timer_handle,
                   timer_source, timers, next_token, clock, cb>>
    /\ UNCHANGED handler_vars
    /\ UNCHANGED pointer_vars

\* dispatch: a ready platform event is handed to its handler.
PlatformEvent ==
    /\ rpc = "events"
    /\ cb = "none"
    /\ cb' = "event"
    /\ rpc' = "timer"
    /\ UNCHANGED <<handles, shutdown, active_surface_id, timer_handle,
                   timer_source, timers, next_token, clock>>
    /\ UNCHANGED handler_vars
    /\ UNCHANGED pointer_vars

\* dispatch: no platform event is ready.
NoPlatformEvent ==
    /\ rpc = "events"
    /\ cb = "none"
    /\ rpc' = "timer"
    /\ UNCHANGED <<handles, shutdown, active_surface_id, timer_handle,
                   timer_source, timers, next_token, clock, cb>>
    /\ UNCHANGED handler_vars
    /\ UNCHANGED pointer_vars

\* The callback in progress returns to the loop.
CallbackReturn ==
    /\ cb # "none"
    /\ cb' = "none"
    /\ UNCHANGED <<handles, shutdown, active_surface_id, timer_handle,
                   timer_source, timers, next_token, clock, rpc>>
    /\ UNCHANGED handler_vars
    /\ UNCHANGED pointer_vars

\* dispatch: the timer-expiry handler is not invoked in this tick.
NoTimerEvent ==
    /\ rpc = "timer"
    /\ cb = "none"
    /\ hpc = "idle"
    /\ rpc' = "check"
    /\ UNCHANGED <<handles, shutdown, active_surface_id, timer_handle,
                   timer_source, timers, next_token, clock, cb>>
    /\ UNCHANGED handler_vars
    /\ UNCHANGED pointer_vars

\* The loop's shutdown check with the test negated.
CheckShutdownNegated ==
    /\ rpc = "check"
    /\ rpc' = IF shutdown THEN "poll" ELSE "exited"
    /\ UNCHANGED <<handles, shutdown, active_surface_id, timer_handle,
                   timer_source, timers, next_token, clock, cb>>
    /\ UNCHANGED handler_vars
    /\ UNCHANGED pointer_vars

\* if self.data.shutdown.get() { break; }
CheckShutdown ==
    /\ rpc = "check"
    /\ rpc' = IF shutdown THEN "exited" ELSE "poll"
    /\ UNCHANGED <<handles, shutdown, active_surface_id, timer_handle,
                   timer_source, timers, next_token, clock, cb>>
    /\ UNCHANGED handler_vars
    /\ UNCHANGED pointer_vars

\* --------------------------------------------- Data::handle_timer_event
\* A history record of one expired timer being handled: what was done with it
\* (kind) and whether its window was a key of the registry at that moment.
LogEntry(kind, t) == [kind |-> kind, token |-> t.token, id |-> t.data,
                      deadline |-> t.deadline, registered |-> t.data \in Registered]

\* s without its i-th element
RemoveAt(s, i) == SubSeq(s, 1, i - 1) \o SubSeq(s, i + 1, Len(s))

\* Entry, invoked because the armed timeout i is due: the wake source hands
\* it over (it is armed no longer); expired_timers = Vec::new();
\* timers.borrow_mut(); now = Instant::now().
HteStartFired(i) ==
    /\ rpc = "timer"
    /\ cb = "none"
    /\ hpc = "idle"
    /\ i \in 1..Len(timer_handle)
    /\ timer_handle[i].at <= clock
    /\ timer_handle' = RemoveAt(timer_handle, i)
    /\ now' = clock
    /\ expired_timers' = <<>>
    /\ hpc' = "drain"
    /\ heap0' = timers
    /\ log' = <<>>
    /\ UNCHANGED <<handles, shutdown, active_surface_id, timer_source,
                   timers, next_token, clock, rpc, cb, snapshot>>
    /\ UNCHANGED pointer_vars

\* Entry, invoked by the tick itself with no timeout due.
HteStart ==
    /\ rpc = "timer"
    /\ cb = "none"
    /\ hpc = "idle"
    /\ now' = clock
    /\ expired_timers' = <<>>
    /\ hpc' = "drain"
    /\ heap0' = timers
    /\ log' = <<>>
    /\ UNCHANGED <<handles, shutdown, active_surface_id, timer_handle,
                   timer_source, timers, next_token, clock, rpc, cb, snapshot>>
    /\ UNCHANGED pointer_vars

\* The borrow of the heap held until the delivery loop is over.
TimersBorrowedLate == hpc \in {"drain", "deliver"}

\* let mut timers = self.timers.borrow_mut() .. drop(timers): the RefCell of
\* the heap is mutably borrowed during the drain loop only.
TimersBorrowed == hpc = "drain"

\* The drain loop's test with <= in place of <.
DrainTestInclusive(t) == t.deadline <= now

\* matches!(timers.peek(), Some(timer) if timer.deadline() < now)
DrainTest(t) == t.deadline < now

\* The drain loop pushing the head of the heap without popping it.
HteDrainPopKeep ==
    /\ hpc = "drain"
    /\ \E t \in HeapPeek(timers) :
          /\ DrainTest(t)
          /\ expired_timers' = Append(expired_timers, t)
          /\ timers' = timers
    /\ UNCHANGED <<handles, shutdown, active_surface_id, timer_handle,
                   timer_source, next_token, clock, rpc, cb, hpc, now,
                   snapshot, heap0, log>>
    /\ UNCHANGED pointer_vars

\* One iteration of the drain loop: expired_timers.push(timers.pop().unwrap()).
HteDrainPop ==
    /\ hpc = "drain"
    /\ \E t \in HeapPeek(timers) :
          /\ DrainTest(t)
          /\ expired_timers' = Append(expired_timers, t)
          /\ timers' = timers \ {t}
    /\ UNCHANGED <<handles, shutdown, active_surface_id, timer_handle,
                   timer_source, next_token, clock, rpc, cb, hpc, now,
                   snapshot, heap0, log>>
    /\ UNCHANGED pointer_vars

\* The drain loop ends: the heap is empty or its head has not expired;
\* drop(timers).
HteDrainDone ==
    /\ hpc = "drain"
    /\ \A t \in HeapPeek(timers) : ~DrainTest(t)
    /\ hpc' = "deliver"
    /\ UNCHANGED <<handles, shutdown, active_surface_id, timer_handle,
                   timer_source, timers, next_token, clock, rpc, cb, now,
                   expired_timers, snapshot, heap0, log>>
    /\ UNCHANGED pointer_vars

\* The stale case of the delivery loop written as `break` instead of `continue`.
HteDeliverStaleBreak ==
    /\ hpc = "deliver"
    /\ cb = "none"
    /\ expired_timers # <<>>
    /\ Lookup(Head(expired_timers).data) = None
    /\ expired_timers' = <<>>
    /\ log' = Append(log, LogEntry("skip", Head(expired_timers)))
    /\ UNCHANGED <<handles, shutdown, active_surface_id, timer_handle,
                   timer_source, timers, next_token, clock, rpc, cb, hpc, now,
                   snapshot, heap0>>
    /\ UNCHANGED pointer_vars

\* The delivery loop, stale case: the window is not in the registry; warn
\* and continue.
HteDeliverStale ==
    /\ hpc = "deliver"
    /\ cb = "none"
    /\ expired_timers # <<>>
    /\ Lookup(Head(expired_timers).data) = None
    /\ expired_timers' = Tail(expired_timers)
    /\ log' = Append(log, LogEntry("skip", Head(expired_timers)))
    /\ UNCHANGED <<handles, shutdown, active_surface_id, timer_handle,
                   timer_source, timers, next_token, clock, rpc, cb, hpc, now,
                   snapshot, heap0>>
    /\ UNCHANGED pointer_vars

\* The delivery loop giving up once the shutdown flag is set.
HteDeliverUnlessQuit ==
    /\ hpc = "deliver"
    /\ cb = "none"
    /\ expired_timers # <<>>
    /\ Lookup(Head(expired_timers).data) # None
    /\ IF shutdown
       THEN /\ expired_timers' = <<>>
            /\ UNCHANGED <<log, cb>>
       ELSE /\ expired_timers' = Tail(expired_timers)
            /\ log' = Append(log, LogEntry("timer", Head(expired_timers)))
            /\ cb' = "timer"
    /\ UNCHANGED <<handles, shutdown, active_surface_id, timer_handle,
                   timer_source, timers, next_token, clock, rpc, hpc, now,
                   snapshot, heap0>>
    /\ UNCHANGED pointer_vars

\* The delivery loop, live case: data.handler.borrow_mut().timer(token).
\* (win.data() of a window of the registry is taken to be Some.)
HteDeliver ==
    /\ hpc = "deliver"
    /\ cb = "none"
    /\ expired_timers # <<>>
    /\ Lookup(Head(expired_timers).data) # None
    /\ expired_timers' = Tail(expired_timers)
    /\ log' = Append(log, LogEntry("timer", Head(expired_timers)))
    /\ cb' = "timer"
    /\ UNCHANGED <<handles, shutdown, active_surface_id, timer_handle,
                   timer_source, timers, next_token, clock, rpc, hpc, now,
                   snapshot, heap0>>
    /\ UNCHANGED pointer_vars

\* The flush started while expired timers are still to be delivered.
HteDeferredStartEarly ==
    /\ hpc = "deliver"
    /\ cb = "none"
    /\ snapshot' = handles_iter
    /\ hpc' = "deferred"
    /\ UNCHANGED <<handles, shutdown, active_surface_id, timer_handle,
                   timer_source, timers, next_token, clock, rpc, cb, now,
                   expired_timers, heap0, log>>
    /\ UNCHANGED pointer_vars

\* The delivery loop is over: for (_, win) in self.handles_iter() starts.
HteDeferredStart ==
    /\ hpc = "deliver"
    /\ cb = "none"
    /\ expired_timers = <<>>
    /\ snapshot' = handles_iter
    /\ hpc' = "deferred"
    /\ UNCHANGED <<handles, shutdown, active_surface_id, timer_handle,
                   timer_source, timers, next_token, clock, rpc, cb, now,
                   expired_timers, heap0, log>>
    /\ UNCHANGED pointer_vars

\* The flush iterating the live registry: a window that has gone is not visited.
HteDeferredLive ==
    /\ hpc = "deferred"
    /\ cb = "none"
    /\ snapshot # <<>>
    /\ IF Head(snapshot)[1] \in Registered
       THEN /\ snapshot' = Tail(snapshot)
            /\ log' = Append(log, [kind |-> "deferred", token |-> 0,
                                   id |-> Head(snapshot)[1], deadline |-> 0,
                                   registered |-> TRUE])
            /\ cb' = "deferred"
       ELSE /\ snapshot' = Tail(snapshot)
            /\ UNCHANGED <<log, cb>>
    /\ UNCHANGED <<handles, shutdown, active_surface_id, timer_handle,
                   timer_source, timers, next_token, clock, rpc, hpc, now,
                   expired_timers, heap0>>
    /\ UNCHANGED pointer_vars

\* One iteration over the snapshot: data.run_deferred_tasks().
HteDeferred ==
    /\ hpc = "deferred"
    /\ cb = "none"
    /\ snapshot # <<>>
    /\ snapshot' = Tail(snapshot)
    /\ log' = Append(log, [kind |-> "deferred", token |-> 0,
                           id |-> Head(snapshot)[1], deadline |-> 0,
                           registered |-> Head(snapshot)[1] \in Registered])
    /\ cb' = "deferred"
    /\ UNCHANGED <<handles, shutdown, active_surface_id, timer_handle,
                   timer_source, timers, next_token, clock, rpc, hpc, now,
                   expired_timers, heap0>>
    /\ UNCHANGED pointer_vars

\* calloop's TimerHandle::add_timeout(delay, token): armed for clock + delay.
Timeout(delay, token) == [delay |-> delay, token |-> token, at |-> clock + delay]

\* if let Some(timer) = timers.peek() { timer_handle.add_timeout(..) }, and
\* the handler returns (its locals are gone).
HteRearm ==
    /\ hpc = "deferred"
    /\ cb = "none"
    /\ snapshot = <<>>
    /\ \E t \in HeapPeek(timers) :
          timer_handle' = Append(timer_handle,
                                 Timeout(InstantSub(t.deadline, now), t.token))
    /\ hpc' = "idle"
    /\ rpc' = "check"
    /\ now' = 0
    /\ heap0' = {}
    /\ log' = <<>>
    /\ UNCHANGED <<handles, shutdown, active_surface_id, timer_source, timers,
                   next_token, clock, cb, expired_timers, snapshot>>
    /\ UNCHANGED pointer_vars

\* timers.peek() is None: nothing is armed, and the handler returns.
HteNoRearm ==
    /\ hpc = "deferred"
    /\ cb = "none"
    /\ snapshot = <<>>
    /\ timers = {}
    /\ hpc' = "idle"
    /\ rpc' = "check"
    /\ now' = 0
    /\ heap0' = {}
    /\ log' = <<>>
    /\ UNCHANGED <<handles, shutdown, active_surface_id, timer_handle,
                   timer_source, timers, next_token, clock, cb,
                   expired_timers, snapshot>>
    /\ UNCHANGED pointer_vars

\* ------------------------------------------- PointerButtons, the methods
\* buttons.insert(button)
insert(button) ==
    /\ buttons' = with(buttons, button)
    /\ UNCHANGED <<built, inclination, converted, origin>>
    /\ UNCHANGED app_vars

\* buttons.remove(button)
remove(button) ==
    /\ buttons' = without(buttons, button)
    /\ UNCHANGED <<built, inclination, converted, origin>>
    /\ UNCHANGED app_vars

\* buttons.extend(built)
extend ==
    /\ buttons' = union(buttons, built)
    /\ UNCHANGED <<built, inclination, converted, origin>>
    /\ UNCHANGED app_vars

\* buttons.clear()
clear ==
    /\ buttons' = 0
    /\ UNCHANGED <<built, inclination, converted, origin>>
    /\ UNCHANGED app_vars

\* built = buttons.with(button): the set is Copy, buttons stays.
CallWith(button) ==
    /\ built' = with(buttons, button)
    /\ UNCHANGED <<buttons, inclination, converted, origin>>
    /\ UNCHANGED app_vars

\* built = buttons.without(button)
CallWithout(button) ==
    /\ built' = without(buttons, button)
    /\ UNCHANGED <<buttons, inclination, converted, origin>>
    /\ UNCHANGED app_vars

\* built = built.union(buttons)
CallUnion ==
    /\ built' = union(built, buttons)
    /\ UNCHANGED <<buttons, inclination, converted, origin>>
    /\ UNCHANGED app_vars

\* ------------------------------------------- PenInclination, the methods
\* inclination = PenInclination::from_tilt(tilt_x, tilt_y)
FromTilt(tilt_x, tilt_y) ==
    /\ inclination' = from_tilt(tilt_x, tilt_y)
    /\ converted' = NoConversion
    /\ origin' = NoConversion
    /\ UNCHANGED <<buttons, built>>
    /\ UNCHANGED app_vars

\* inclination = PenInclination::from_angle(azimuth_angle, altitude_angle)
FromAngle(azimuth_angle, altitude_angle) ==
    /\ inclination' = from_angle(azimuth_angle, altitude_angle)
    /\ converted' = NoConversion
    /\ origin' = NoConversion
    /\ UNCHANGED <<buttons, built>>
    /\ UNCHANGED app_vars

\* The angles azimuth_altitude() returned for a stored tilt are stored back:
\* inclination = PenInclination::from_angle(a.azimuth_angle, a.altitude_angle)
FromConverted ==
    /\ inclination.kind = "Tilt"
    /\ converted.kind = "angle"
    /\ inclination' = from_angle(converted.a, converted.b)
    /\ converted' = NoConversion
    /\ origin' = inclination
    /\ UNCHANGED <<buttons, built>>
    /\ UNCHANGED app_vars

\* converted = inclination.tilt()
CallTilt ==
    /\ converted' = tilt(inclination)
    /\ UNCHANGED <<buttons, built, inclination, origin>>
    /\ UNCHANGED app_vars

\* converted = inclination.azimuth_altitude()
CallAzimuthAltitude ==
    /\ converted' = azimuth_altitude(inclination)
    /\ UNCHANGED <<buttons, built, inclination, origin>>
    /\ UNCHANGED app_vars

\* ------------------------------------------------------- specifications
\* The inclinations of a pen, stored in either form and asked for in either.
NextPen ==
    \/ \E tilt_x \in TiltValues, tilt_y \in TiltValues : FromTilt(tilt_x, tilt_y)
    \/ \E azimuth_angle \in AzimuthValues, altitude_angle \in AltitudeValues :
          FromAngle(azimuth_angle, altitude_angle)
    \/ FromConverted
    \/ CallTilt
    \/ CallAzimuthAltitude

SpecPen == Init /\ [][NextPen]_vars

\* The button sets built from the empty set by the methods of PointerButtons.
NextButtons ==
    \/ \E button \in PointerButton : insert(button)
    \/ \E button \in PointerButton : remove(button)
    \/ extend
    \/ clear
    \/ \E button \in PointerButton : CallWith(button)
    \/ \E button \in PointerButton : CallWithout(button)
    \/ CallUnion

SpecButtons == Init /\ [][NextButtons]_vars

\* The timer-expiry handler, with at most maxArmed timeouts armed.
Handler(maxArmed) ==
    \/ \E i \in 1..maxArmed : HteStartFired(i)
    \/ Len(timer_handle) < maxArmed /\ HteStart
    \/ HteDrainPop
    \/ HteDrainDone
    \/ HteDeliverStale
    \/ HteDeliver
    \/ HteDeferredStart
    \/ HteDeferred
    \/ HteRearm
    \/ HteNoRearm

\* The surface registry and the active-surface stack on their own.
NextRegistry ==
    \/ \E id \in Ids, h \in Handles : Register(id, h)
    \/ \E id \in Ids : Unregister(id)
    \/ \E id \in Ids : Len(active_surface_id) < MaxStack /\ Activate(id)

SpecRegistry == Init /\ [][NextRegistry]_vars

\* The timers: windows are registered before run() and may go away in any
\* callback; timers are scheduled before run() and in any callback.
NextTimers ==
    \/ \E id \in 0..TimerMaxId : rpc = "new" /\ Register(id, "h1")
    \/ \E id \in 0..TimerMaxId : rpc # "new" /\ Unregister(id)
    \/ \E id \in 0..TimerMaxId, d \in 0..MaxTime :
          next_token <= MaxTimers /\ Schedule(id, d)
    \/ Run
    \/ \E dt \in 0..1 : clock + dt <= MaxTime /\ Poll(dt)
    \/ NoPlatformEvent
    \/ CallbackReturn
    \/ NoTimerEvent
    \/ CheckShutdown
    \/ Handler(MaxArmed)

SpecTimers == Init /\ [][NextTimers]_vars

\* The deferred-task flush: surfaces come and go before run() and in any
\* callback, the flush of the handler runs over them.
NextFlush ==
    \/ \E id \in 0..FlushMaxId, h \in Handles : Register(id, h)
    \/ \E id \in 0..FlushMaxId : Unregister(id)
    \/ \E id \in 0..FlushMaxId, d \in 0..FlushMaxTime :
          next_token <= FlushMaxTimers /\ Schedule(id, d)
    \/ Run
    \/ \E dt \in 0..1 : clock + dt <= FlushMaxTime /\ Poll(dt)
    \/ NoPlatformEvent
    \/ CallbackReturn
    \/ NoTimerEvent
    \/ CheckShutdown
    \/ Handler(FlushMaxArmed)

SpecFlush == Init /\ [][NextFlush]_vars

\* Cancellation: one window, timers scheduled and quit() called before run()
\* and in any callback of the loop.
NextQuit ==
    \/ rpc = "new" /\ Register(0, "h1")
    \/ \E d \in 0..QuitMaxTime : next_token <= QuitMaxTimers /\ Schedule(0, d)
    \/ Quit
    \/ Run
    \/ \E dt \in 0..1 : clock + dt <= QuitMaxTime /\ Poll(dt)
    \/ PlatformEvent
    \/ NoPlatformEvent
    \/ CallbackReturn
    \/ NoTimerEvent
    \/ CheckShutdown
    \/ Handler(QuitMaxArmed)

SpecQuit == Init /\ [][NextQuit]_vars

\* The whole driver: the operations of the application ...
SurfaceOp ==
    \/ \E id \in 0..DriverMaxId, h \in Handles : Register(id, h)
    \/ \E id \in 0..DriverMaxId : Unregister(id)

ActivateOp ==
    \E id \in 0..DriverMaxId :
        Len(active_surface_id) < DriverMaxStack /\ Activate(id)

TimerOp ==
    \E id \in 0..DriverMaxId, d \in 0..DriverMaxTime :
        next_token <= DriverMaxTimers /\ Schedule(id, d)

AppOp == SurfaceOp \/ ActivateOp \/ TimerOp \/ Quit

\* ... and the loop of run(), one tick being poll, dispatch, shutdown check.
Tick ==
    \/ \E dt \in 0..1 : clock + dt <= DriverMaxTime /\ Poll(dt)
    \/ DispatchError
    \/ PlatformEvent
    \/ NoPlatformEvent
    \/ CallbackReturn
    \/ NoTimerEvent
    \/ CheckShutdown

Loop == Run \/ RunNoSource \/ Tick

Next == AppOp \/ Loop \/ Handler(DriverMaxArmed)

Spec == Init /\ [][Next]_vars

\* The loop of run() with what it reads: the flag, the timers, the registry
\* (the active-surface stack is not read by the loop or the handler).  Once
\* run() has been entered the thread keeps going: the poll returns within its
\* interval, every callback returns, every step of the handler and of the loop
\* is taken.
NextLoop == SurfaceOp \/ TimerOp \/ Quit \/ Loop \/ Handler(DriverMaxArmed)

FairSpec ==
    Init /\ [][NextLoop]_vars /\ WF_vars(Tick \/ Handler(DriverMaxArmed))

\* ------------------------------------------------------ the timer claims
\* The timers of the heap at the start of the handling that had expired then.
Expired0 == {t \in heap0 : t.deadline < now}

\* The timers of the heap at the start of the handling that had not.
Pending0 == {t \in heap0 : ~(t.deadline < now)}

\* The drain loop of the current handling has just ended.
DrainEnds == hpc = "drain" /\ hpc' = "deliver"

\* The current handling returns.
HandlingEnds == hpc = "deferred" /\ hpc' = "idle"

\* The records of the expired timers handled so far, delivered or skipped.
Handled == SelectSeq(log, LAMBDA e : e.kind \in {"timer", "skip"})

\* The records of the expired timers delivered to a window handler so far.
Delivered == SelectSeq(log, LAMBDA e : e.kind = "timer")

\* C1: when the drain loop of handle_timer_event ends, the timers popped are
\* exactly the timers of the heap whose deadline is strictly before `now`
\* (each popped once; one with deadline = now is not popped), the heap holds
\* exactly the others, and the heap's head has the least deadline among them,
\* the heap being empty exactly when there are none.
C1_DrainPopsExactlyExpired ==
    [][DrainEnds =>
        /\ Range(expired_timers') = Expired0
        /\ Len(expired_timers') = Cardinality(Expired0)
        /\ timers' = Pending0
        /\ \A t \in HeapPeek(timers') : \A u \in Pending0 : t.deadline <= u.deadline
        /\ (HeapPeek(timers') = {}) = (Pending0 = {})]_vars

\* C1's case: three timers at 1, 0 and 2 drained at 1: only the timer at 0
\* is popped, the timer at 1 (deadline = now) is the earliest left.
C1_Witness ==
    /\ hpc = "deliver"
    /\ log = <<>>
    /\ now = 1
    /\ {t.deadline : t \in heap0} = {0, 1, 2}
    /\ Len(expired_timers) = 1
    /\ expired_timers[1].deadline = 0
    /\ {t.deadline : t \in HeapPeek(timers)} = {1}

\* s is sorted by deadline, each strictly before the next.
StrictlyAscending(s) == \A i \in 1..(Len(s) - 1) : s[i].deadline < s[i + 1].deadline

\* s is sorted by deadline, none after the next.
Ascending(s) == \A i \in 1..(Len(s) - 1) : s[i].deadline <= s[i + 1].deadline

\* C2 as stated: the expired timers of one drain are popped, and delivered,
\* strictly ascending by deadline.
C2_StrictlyAscending ==
    /\ StrictlyAscending(expired_timers)
    /\ StrictlyAscending(Delivered)

\* C2 as amended: the expired timers of one drain are popped, handled and
\* delivered in ascending order of deadline, two timers of the same deadline
\* in either order: no timer is handled after one of a later deadline.
C2_Ascending ==
    /\ Ascending(expired_timers)
    /\ Ascending(Handled \o expired_timers)
    /\ Ascending(Delivered)

\* C2's case: three timers delivered in one handling, two of them with the
\* same deadline and one earlier.
C2_Witness ==
    /\ Len(Delivered) = 3
    /\ Delivered[1].deadline < Delivered[2].deadline
    /\ Delivered[2].deadline = Delivered[3].deadline

\* C3 as stated: when a timer-expiry handling returns, exactly one wake-up is
\* armed if a timer is pending, with the delay (earliest deadline - now) and
\* the earliest timer's token, and none is armed if no timer is pending.
C3_SingleWakeup ==
    [][HandlingEnds =>
        IF timers' # {}
        THEN /\ Len(timer_handle') = 1
             /\ \E t \in HeapPeek(timers') :
                   /\ timer_handle'[1].delay = InstantSub(t.deadline, now)
                   /\ timer_handle'[1].token = t.token
        ELSE timer_handle' = <<>>]_vars

\* C8: when a handling returns, every timer that had expired at its start has
\* been handled exactly once, in spite of the stale ones: skipped, with no
\* handler invoked, exactly if its window was not in the registry at that
\* moment, and delivered otherwise; the deferred tasks of every window still
\* registered have run; and one more wake-up is armed if a timer is pending.
C8_StaleTimerSkipped ==
    [][HandlingEnds =>
        /\ {e.token : e \in Range(Handled)} = {t.token : t \in Expired0}
        /\ Len(Handled) = Cardinality(Expired0)
        /\ \A e \in Range(Handled) : (e.kind = "skip") = ~e.registered
        /\ \A id \in Registered :
              \E e \in Range(log) : e.kind = "deferred" /\ e.id = id
        /\ timers' # {} => Len(timer_handle') = Len(timer_handle) + 1]_vars

\* C8's case: a handling about to return in which a stale timer was skipped,
\* a later timer of the same drain was delivered, deferred tasks ran and a
\* timer is pending.
C8_Witness ==
    /\ hpc = "deferred"
    /\ snapshot = <<>>
    /\ cb = "none"
    /\ timers # {}
    /\ \E i, j \in 1..Len(log) :
          /\ i < j
          /\ log[i].kind = "skip"
          /\ log[j].kind = "timer"
    /\ \E e \in Range(log) : e.kind = "deferred"

\* --------------------------------------------------- the registry claims
\* C4: in every state, register(id, h) leads only to states where a lookup
\* of id gives Some(h), whatever was registered for id before, and
\* unregister(id) leads only to states where a lookup of id gives None,
\* whether or not id was registered.
C4_RegisterLookup ==
    \A id \in Ids :
        /\ \A h \in Handles : ~ENABLED (Register(id, h) /\ Lookup(id)' # Some(h))
        /\ ~ENABLED (Unregister(id) /\ Lookup(id)' # None)

\* C4's case: 1 is registered and 2 is not; registering 1 again replaces its
\* handle, and unregistering either one leaves no entry for it.
C4_Witness ==
    /\ Lookup(1) = Some("h1")
    /\ Lookup(2) = None
    /\ ENABLED (Register(1, "h2") /\ Lookup(1)' = Some("h2"))
    /\ ENABLED (Unregister(1) /\ Lookup(1)' = None)
    /\ ENABLED (Unregister(2) /\ Lookup(2)' = None)

\* C5: every identifier of the active-surface stack, its front included, is
\* a key of the registry.
C5_StackRefersToLiveSurfaces ==
    \A i \in 1..Len(active_surface_id) : active_surface_id[i] \in Registered

\* C5's case: two surfaces were active and one of them has been destroyed,
\* the other one is left on the stack.
C5_Witness ==
    /\ Len(active_surface_id) = 2
    /\ Cardinality(Registered) = 1
    /\ ENABLED (\E id \in Ids : Unregister(id) /\ active_surface_id' = <<>>)

\* C6 as stated: acquire_current_window gives None whenever the stack is
\* empty, whatever is registered, and whenever its front is not a key of the
\* registry.
C6_NoneWithoutActiveSurface ==
    /\ active_surface_id = <<>> => acquire_current_window = None
    /\ (active_surface_id # <<>> /\ Head(active_surface_id) \notin Registered)
          => acquire_current_window = None

\* C7 as stated: unregister(id) of the front identifier of the stack leads
\* only to states where acquire_current_window gives the handle of the
\* identifier then at the front, or None if the stack is then empty.
C7_FrontUnregistered ==
    [][\A id \in Ids :
          (Unregister(id) /\ active_surface_id # <<>> /\ Head(active_surface_id) = id)
              => acquire_current_window' =
                    (IF active_surface_id' = <<>> THEN None
                     ELSE Some(handles'[Head(active_surface_id')]))]_vars

\* ------------------------------------------------------ the driver claims
\* C9: the shutdown flag is false initially; a step that changes the flag
\* sets it and changes nothing else (registry, stack, timers, wake source,
\* loop and handler are as before); quit() with the flag already set changes
\* nothing at all; so that no step of any operation resets the flag.
C9_QuitSetsShutdown ==
    /\ shutdown = FALSE
    /\ [][/\ shutdown' # shutdown =>
                /\ shutdown'
                /\ UNCHANGED <<handles, active_surface_id, timer_handle,
                               timer_source, timers, next_token, clock, rpc, hpc,
                               cb, now, expired_timers, snapshot, heap0, log>>
          /\ ~(Quit /\ shutdown)]_vars

\* C9's case: quit() has been called while surfaces are registered, one is
\* active and a timer is pending, and it can be called again.
C9_Witness ==
    /\ shutdown
    /\ Registered # {}
    /\ active_surface_id # <<>>
    /\ timers # {}
    /\ ENABLED Quit

\* run() is in its loop.
Running == rpc \in {"poll", "events", "timer", "check"}

\* C10: run() leaves its loop only by the shutdown check finding the flag
\* set (or by the panic of a dispatch error); a shutdown check that finds the
\* flag set leaves the loop; and once the flag is set while run() is in its
\* loop, run() eventually returns (or has panicked on a dispatch error).
C10_RunBlocksUntilShutdown ==
    /\ [][/\ (Running /\ rpc' = "exited") => (rpc = "check" /\ shutdown)
          /\ (Running /\ ~Running') => rpc' \in {"exited", "panicked"}
          /\ (rpc = "check" /\ shutdown) => rpc' = "exited"]_vars
    /\ ((Running /\ shutdown) ~> (rpc \in {"exited", "panicked"}))

\* C10's case: run() has returned after a quit() made from a timer callback
\* or another callback of the loop.
C10_Witness ==
    /\ rpc = "exited"
    /\ shutdown
    /\ clock > 0

\* C11: once run() has returned, nothing is dispatched any more: no step
\* changes the clock, the callbacks, the handler, the timers, the registry or
\* the wake source; the timer source is gone (taken when run() started), so
\* that run() cannot enter its loop again: the only step left is a second
\* run() on the same data, which panics on the missing source.
C11_LoopExitTerminal ==
    /\ [](rpc = "exited" => (timer_source = "None" /\ hpc = "idle" /\ cb = "none"))
    /\ [](rpc = "exited" => ~ENABLED Run)
    /\ [][rpc = "exited" =>
            /\ rpc' \in {"exited", "panicked"}
            /\ UNCHANGED <<handles, shutdown, active_surface_id, timer_handle,
                           timer_source, timers, next_token, clock, hpc, cb,
                           now, expired_timers, snapshot, heap0, log>>]_vars

\* C11's case: run() has returned while a timer is still pending for a
\* registered window, and a second run() panics instead of looping.
C11_Witness ==
    /\ rpc = "exited"
    /\ timers # {}
    /\ Registered # {}
    /\ ENABLED (RunNoSource /\ rpc' = "panicked")
\* C12 as stated: while run() is looping, a pending timer whose deadline has
\* passed and whose window is registered is eventually delivered to the
\* window's handler (unless run() leaves its loop or the window goes away).
C12_TimersNotStarved ==
    \A tok \in 1..DriverMaxTimers :
        (/\ Running
         /\ \E t \in timers :
               t.token = tok /\ t.deadline < clock /\ t.data \in Registered)
        ~> (\/ \E e \in Range(log) : e.kind = "timer" /\ e.token = tok
            \/ ~Running
            \/ \E t \in timers : t.token = tok /\ t.data \notin Registered)
\* C13: no callback runs while the heap is borrowed, so that a schedule made
\* by a timer callback (or a deferred task) finds the heap free; such a
\* schedule puts the new timer into the heap and leaves the handling as it
\* was; nothing leaves the heap before the handling returns; and the wake-up
\* armed at the end is for the earliest timer of the heap, the newly
\* scheduled ones included.
C13_ReentrantScheduling ==
    /\ [](cb # "none" => ~TimersBorrowed)
    /\ [][/\ (hpc \in {"deliver", "deferred"} /\ next_token' # next_token) =>
                /\ cb # "none"
                /\ \E id \in Ids, d \in 0..MaxTime :
                      timers' = timers \cup {[deadline |-> d, data |-> id,
                                              token |-> next_token]}
                /\ Cardinality(timers') = Cardinality(timers) + 1
                /\ UNCHANGED <<hpc, now, expired_timers, snapshot, log, cb>>
          /\ (hpc \in {"deliver", "deferred"}) => timers \subseteq timers'
          /\ (HandlingEnds /\ timers # {}) =>
                /\ timer_handle'[Len(timer_handle')].delay =
                      InstantSub(SetMin({t.deadline : t \in timers}), now)
                /\ \E t \in timers :
                      /\ t.token = timer_handle'[Len(timer_handle')].token
                      /\ t.deadline = SetMin({u.deadline : u \in timers})]_vars

\* C13's case: a timer callback of this handling scheduled a timer that is
\* earlier than the one left pending by the drain; the handling is about to
\* arm the wake-up, for the new timer.
C13_Witness ==
    /\ hpc = "deferred"
    /\ snapshot = <<>>
    /\ cb = "none"
    /\ Len(Delivered) >= 1
    /\ Pending0 # {}
    /\ \E t \in HeapPeek(timers) :
          /\ t \notin heap0
          /\ \A u \in Pending0 : t.deadline < u.deadline
\* The windows the flush has visited so far, in order.
Visited == [i \in 1..Len(SelectSeq(log, LAMBDA e : e.kind = "deferred")) |->
               SelectSeq(log, LAMBDA e : e.kind = "deferred")[i].id]

\* The windows the flush has yet to visit, in order.
ToVisit == [i \in 1..Len(snapshot) |-> snapshot[i][1]]

\* The flush of the deferred tasks is in progress.
Flushing == hpc = "deferred"

\* C14: the flush starts with a snapshot that lists exactly the windows
\* registered at that moment, each once, with its handle; then every step,
\* whatever it does to the registry, leaves the snapshot as it is or visits
\* its first window, so that the windows visited and those yet to be visited
\* are together always the windows of the snapshot; and the flush ends only
\* when all have been visited.
C14_SnapshotIteration ==
    [][/\ (~Flushing /\ Flushing') =>
            /\ Len(snapshot') = Cardinality(Registered)
            /\ Range(ToVisit') = Registered
            /\ \A i \in 1..Len(snapshot') :
                  snapshot'[i][2] = handles[snapshot'[i][1]]
            /\ Visited' = <<>>
            /\ UNCHANGED handles
       /\ (Flushing /\ Flushing') =>
            /\ \/ snapshot' = snapshot
               \/ snapshot # <<>> /\ snapshot' = Tail(snapshot)
            /\ Visited' \o ToVisit' = Visited \o ToVisit
       /\ (Flushing /\ ~Flushing') => snapshot = <<>>]_vars

\* C14's case: the snapshot was taken with two windows; during the task of
\* the first one a callback unregistered the second and registered the first
\* again with another handle; the second is still to be visited, and the
\* snapshot still holds the handle it was taken with.
C14_Witness ==
    /\ Flushing
    /\ Visited = <<0>>
    /\ snapshot = << <<1, "h1">> >>
    /\ handles[1] = Absent
    /\ handles[0] = "h2"
\* C15: a dispatch error can strike any poll of the loop, whatever the
\* shutdown flag is; the step of a dispatch error ends run() abnormally and
\* touches nothing else; a poll is followed by the tick's dispatch or by that
\* abnormal end, never by a retry or a skip to the next tick; and after the
\* abnormal end nothing happens any more.
C15_DispatchErrorFatal ==
    /\ [](rpc = "poll" => ENABLED DispatchError)
    /\ [][/\ DispatchError => rpc' = "panicked"
          /\ (rpc = "poll" /\ rpc' # "events") =>
                /\ rpc' = "panicked"
                /\ UNCHANGED <<handles, shutdown, active_surface_id,
                               timer_handle, timer_source, timers, next_token,
                               clock, hpc, cb, now, expired_timers, snapshot,
                               heap0, log>>
          /\ rpc # "panicked"]_vars

\* C15's case: run() has ended abnormally in a later tick, with the shutdown
\* flag not set and a timer pending (only a dispatch error does that).
C15_Witness ==
    /\ rpc = "panicked"
    /\ ~shutdown
    /\ clock > 0
    /\ timers # {}
\* ---------------------------------------------------- the pointer claims
\* C16: for every button set s built from the empty set and every button b
\* other than None, s.with(b) contains b, s.with(b).without(b) does not, and
\* both agree with s on every other button; with and without of None give s
\* itself (so is_empty and count are as before), insert and remove of None
\* leave the set as it is, and no set contains None.
C16_ButtonsRoundTrip ==
    /\ \A s \in {buttons, built} :
          /\ \A b \in PointerButton \ {ButtonNone} :
                /\ contains(with(s, b), b)
                /\ ~contains(without(with(s, b), b), b)
                /\ \A c \in PointerButton \ {b} :
                      /\ contains(with(s, b), c) = contains(s, c)
                      /\ contains(without(with(s, b), b), c) = contains(s, c)
          /\ with(s, ButtonNone) = s
          /\ without(s, ButtonNone) = s
          /\ is_empty(with(s, ButtonNone)) = is_empty(s)
          /\ is_empty(without(s, ButtonNone)) = is_empty(s)
          /\ count(with(s, ButtonNone)) = count(s)
          /\ count(without(s, ButtonNone)) = count(s)
          /\ ~contains(s, ButtonNone)
          /\ ~contains(with(s, ButtonNone), ButtonNone)
    /\ ~ENABLED (insert(ButtonNone) /\ buttons' # buttons)
    /\ ~ENABLED (remove(ButtonNone) /\ buttons' # buttons)

\* C16's case: a set of two buttons, Left among them and Eraser not, and the
\* set that with(Eraser) built from it.
C16_Witness ==
    /\ count(buttons) = 2
    /\ contains(buttons, Left)
    /\ ~contains(buttons, Eraser)
    /\ built = with(buttons, Eraser)
    /\ count(built) = 3
\* azimuth_altitude() has been called on a stored tilt.
TiltConverted == inclination.kind = "Tilt" /\ converted.kind = "angle"

\* tilt() has been called on stored angles.
AngleConverted == inclination.kind = "AzimuthAltitude" /\ converted.kind = "tilt"

\* C17: for a tilt with tilt_x = 0 or tilt_y = 0 the azimuth is decided by
\* the signs (tilt_x = 0: 90 degrees for tilt_y > 0, 270 for tilt_y < 0, 0
\* for tilt_y = 0; tilt_y = 0: 0 for tilt_x > 0, 180 for tilt_x < 0) and the
\* altitude is 90 degrees minus the magnitude of the other tilt.
C17_DegenerateAxis ==
    (TiltConverted /\ (inclination.a = 0 \/ inclination.b = 0)) =>
        /\ converted.a \in {0, 90, 180, 270}
        /\ inclination.a = 0 =>
              /\ converted.a = (IF inclination.b > 0 THEN 90
                                ELSE IF inclination.b < 0 THEN 270 ELSE 0)
              /\ converted.b = 90 - Abs(inclination.b)
        /\ inclination.b = 0 =>
              /\ converted.a = (IF inclination.a < 0 THEN 180 ELSE 0)
              /\ converted.b = 90 - Abs(inclination.a)

\* C17's case: the tilt (0, -30) converted: azimuth 270, altitude 60.
C17_Witness ==
    /\ inclination = from_tilt(0, -30)
    /\ converted = [kind |-> "angle", a |-> 270, b |-> 60]

\* C18 as stated: for every tilt with |tilt_x| = 90 or |tilt_y| = 90 the
\* azimuth is 0 and the altitude is 0.
C18_BoundaryAllZero ==
    (TiltConverted /\ (Abs(inclination.a) = 90 \/ Abs(inclination.b) = 90)) =>
        (converted.a = 0 /\ converted.b = 0)

\* C18 as amended: for every tilt with |tilt_x| = 90 or |tilt_y| = 90 the
\* altitude is 0; the azimuth is 0 if neither tilt is 0, and is the one of
\* the axis otherwise (90 for (0, 90), 270 for (0, -90), 180 for (-90, 0),
\* 0 for (90, 0)); so that with tilt_x = 90 both are 0.
C18_Boundary ==
    (TiltConverted /\ (Abs(inclination.a) = 90 \/ Abs(inclination.b) = 90)) =>
        /\ converted.b = 0
        /\ (inclination.a # 0 /\ inclination.b # 0) => converted.a = 0
        /\ inclination.a = 0 =>
              converted.a = (IF inclination.b > 0 THEN 90 ELSE 270)
        /\ inclination.b = 0 =>
              converted.a = (IF inclination.a < 0 THEN 180 ELSE 0)
        /\ inclination.a = 90 => converted.a = 0

\* C18's case: the tilt (-90, 45), on the boundary and off the axes,
\* converted: azimuth 0, altitude 0.
C18_Witness ==
    /\ inclination = from_tilt(-90, 45)
    /\ converted = [kind |-> "angle", a |-> 0, b |-> 0]

\* atan2(tan(tilt_y), tan(tilt_x)) brought into [0, 360) degrees.
GeneralAzimuth(tilt_x, tilt_y) ==
    IF Atan2Deg(Tan(tilt_y), Tan(tilt_x)) < 0
    THEN Atan2Deg(Tan(tilt_y), Tan(tilt_x)) + 360
    ELSE Atan2Deg(Tan(tilt_y), Tan(tilt_x))

\* atan(1 / sqrt(tan^2(tilt_x) + tan^2(tilt_y))) in degrees.
GeneralAltitude(tilt_x, tilt_y) ==
    AtanDeg(Div(Num(Scale), Sqrt(SumSq(Tan(tilt_x), Tan(tilt_y)))))

\* C19 as stated: for a tilt with both tilts non-zero and of magnitude below
\* 90, the azimuth is atan2(tan(tilt_y), tan(tilt_x)) in [0, 360) degrees, in
\* the quadrant of the signs of (tilt_x, tilt_y), and the altitude is
\* atan(1 / sqrt(tan^2(tilt_x) + tan^2(tilt_y))), the same for (tilt_y, tilt_x).
C19_GeneralCase ==
    (/\ TiltConverted
     /\ inclination.a # 0 /\ inclination.b # 0
     /\ Abs(inclination.a) < 90 /\ Abs(inclination.b) < 90) =>
        /\ converted.a = GeneralAzimuth(inclination.a, inclination.b)
        /\ (inclination.a > 0 /\ inclination.b > 0) =>
              (0 < converted.a /\ converted.a < 90)
        /\ (inclination.a < 0 /\ inclination.b > 0) =>
              (90 < converted.a /\ converted.a < 180)
        /\ (inclination.a < 0 /\ inclination.b < 0) =>
              (180 < converted.a /\ converted.a < 270)
        /\ (inclination.a > 0 /\ inclination.b < 0) =>
              (270 < converted.a /\ converted.a < 360)
        /\ converted.b = GeneralAltitude(inclination.a, inclination.b)
        /\ converted.b = tilt_to_spherical(inclination.b, inclination.a).b

\* C20 as stated: tilt() of angles with altitude 0 is the octant pattern of
\* the azimuth ((90, 0) at 0 and 360 degrees, (0, 90) at 90, (-90, 0) at 180,
\* (0, -90) at 270, (90, 90), (-90, 90), (-90, -90), (90, -90) in between);
\* with another altitude it is (atan(cos(azimuth) / tan(altitude)),
\* atan(sin(azimuth) / tan(altitude))) in rounded degrees; so that the angles
\* (0, 90 degrees) of the default PenInfo give the tilt (0, 0).
C20_AngleToTilt ==
    AngleConverted =>
        LET azimuth == inclination.a
            altitude == inclination.b
        IN  /\ altitude = 0 =>
                  /\ converted.a =
                        (IF azimuth \in {90, 270} THEN 0
                         ELSE IF azimuth > 90 /\ azimuth < 270 THEN -90 ELSE 90)
                  /\ converted.b =
                        (IF azimuth \in {0, 180, 360} THEN 0
                         ELSE IF azimuth < 180 THEN 90 ELSE -90)
            /\ altitude # 0 =>
                  /\ converted.a = AtanDeg(Div(Cos(azimuth), Tan(altitude)))
                  /\ converted.b = AtanDeg(Div(Sin(azimuth), Tan(altitude)))
            /\ (azimuth = 0 /\ altitude = 90) =>
                  (converted.a = 0 /\ converted.b = 0)

\* The angles computed from a stored tilt were stored back and tilt() has
\* been called on them.
CrossConverted == origin.kind = "Tilt" /\ AngleConverted

\* C21 as stated: for a tilt (tx, ty) with no component of magnitude 90,
\* from_tilt(tx, ty).azimuth_altitude() stored back with from_angle and asked
\* for its tilt() gives (tx, ty) again, within one degree on each component.
C21_CrossRoundTrip ==
    (CrossConverted /\ Abs(origin.a) # 90 /\ Abs(origin.b) # 90) =>
        /\ Abs(converted.a - origin.a) <= 1
        /\ Abs(converted.b - origin.b) <= 1

\* ---------------------------------------------- the claims on one handling
\* The tokens of the timers that were in the heap when the handling started.
Tokens0 == {t.token : t \in heap0}

\* The timers scheduled since the current handling started.
ScheduledInHandling == {t \in timers : t.token \notin Tokens0}

\* C22: the phases of one handling follow each other in one order: drain,
\* delivery, deferred tasks, arming.  Timers leave the heap in the drain
\* only, and callbacks do not run then; expired timers are delivered or
\* skipped in the delivery phase only, which ends when none is left; deferred
\* tasks run after it only; the wake-up is armed by the last step, for the
\* earliest timer then in the heap.  So a timer scheduled by a callback of
\* the handling is never among the timers this handling delivers, and it is
\* among those the wake-up is armed for.
C22_PhaseOrder ==
    /\ [][/\ hpc' # hpc =>
                <<hpc, hpc'>> \in {<<"idle", "drain">>, <<"drain", "deliver">>,
                                   <<"deliver", "deferred">>, <<"deferred", "idle">>}
          /\ ~(timers \subseteq timers') => (hpc = "drain" /\ hpc' = "drain")
          /\ Len(expired_timers') > Len(expired_timers) => hpc = "drain"
          /\ Len(Handled') > Len(Handled) =>
                (hpc = "deliver" /\ hpc' = "deliver" /\ timers' = timers)
          /\ Len(Visited') > Len(Visited) =>
                (hpc = "deferred" /\ hpc' = "deferred" /\ timers' = timers)
          /\ Len(timer_handle') > Len(timer_handle) => HandlingEnds
          /\ (HandlingEnds /\ timers # {}) =>
                \E t \in timers :
                    /\ \A u \in ScheduledInHandling : t.deadline <= u.deadline
                    /\ timer_handle'[Len(timer_handle')].token = t.token]_vars
    /\ [](hpc = "drain" => (cb = "none" /\ log = <<>>))
    /\ [](hpc = "deliver" => Visited = <<>>)
    /\ [](hpc = "deferred" => expired_timers = <<>>)
    /\ [](hpc # "idle" =>
            /\ \A i \in 1..Len(expired_timers) : expired_timers[i].token \in Tokens0
            /\ \A e \in Range(Handled) : e.token \in Tokens0
            /\ \A t \in ScheduledInHandling :
                  /\ t.token \notin {e.token : e \in Range(Handled)}
                  /\ t.token \notin {expired_timers[i].token :
                                       i \in 1..Len(expired_timers)})

\* C22's case: a handling about to arm the wake-up, in which a timer was
\* delivered, deferred tasks ran, and a callback scheduled a timer whose
\* deadline had passed at the start of the handling: it is in the heap, not
\* delivered, and the earliest one to arm for.
C22_Witness ==
    /\ hpc = "deferred"
    /\ snapshot = <<>>
    /\ cb = "none"
    /\ Len(Delivered) >= 1
    /\ Len(Visited) >= 1
    /\ \E t \in ScheduledInHandling :
          /\ t.deadline < now
          /\ t \in HeapPeek(timers)
          /\ ENABLED (HteRearm /\ timer_handle'[Len(timer_handle')].token = t.token)

\* C23: the loop goes round poll, dispatch, shutdown check, and leaves only
\* at the check, which comes after the dispatch of the tick with no callback
\* and no handling in progress.  A quit() made during a tick sets the flag
\* and leaves the tick where it is; the handling that is in progress goes on
\* to its end whatever the flag is: every timer that had expired at its start
\* is handled, the deferred tasks of the windows run, and the wake-up is
\* armed if a timer is pending.
C23_CooperativeCancellation ==
    /\ [][/\ rpc' # rpc =>
                <<rpc, rpc'>> \in {<<"new", "poll">>, <<"poll", "events">>,
                                   <<"events", "timer">>, <<"timer", "check">>,
                                   <<"check", "poll">>, <<"check", "exited">>}
          /\ rpc' = "exited" => (rpc \in {"check", "exited"} /\ shutdown)
          /\ (Running /\ shutdown' # shutdown) =>
                /\ cb # "none"
                /\ UNCHANGED <<rpc, hpc, cb, now, expired_timers, snapshot,
                               log, timers, timer_handle, handles>>
          /\ HandlingEnds =>
                /\ {e.token : e \in Range(Handled)} = {t.token : t \in Expired0}
                /\ Len(Handled) = Cardinality(Expired0)
                /\ \A id \in Registered : id \in Range(Visited)
                /\ timers # {} => Len(timer_handle') = Len(timer_handle) + 1
                /\ rpc' = "check"]_vars
    /\ [](rpc \in {"check", "exited"} => (hpc = "idle" /\ cb = "none"))
    /\ [](hpc # "idle" => rpc = "timer")

\* C23's case: a handling of a later tick (a wake-up armed by the handling
\* of an earlier tick is there, so the flag was not set at that tick's check)
\* in which quit() was called by a callback: both expired timers have been
\* delivered all the same, the deferred tasks have run, and the handling is
\* about to arm the wake-up for the pending timer before the check ends the
\* loop.
C23_Witness ==
    /\ shutdown
    /\ hpc = "deferred"
    /\ snapshot = <<>>
    /\ cb = "none"
    /\ Len(timer_handle) = 1
    /\ Cardinality(Expired0) = 2
    /\ Len(Delivered) = 2
    /\ Visited = <<0>>
    /\ timers # {}
    /\ ENABLED (HteRearm /\ Len(timer_handle') = 2)

\* The tokens of the timers of the heap, of the timers popped and waiting for
\* their delivery, and of the timers this handling has delivered or skipped.
HeapTokens == {t.token : t \in timers}
PoppedTokens == {expired_timers[i].token : i \in 1..Len(expired_timers)}
HandledTokens == {e.token : e \in Range(Handled)}

\* C24: a timer is in one place at a time: in the heap, or popped and
\* waiting, or handled (no token twice in any of them, none in two of them),
\* and every token is older than the next one to be drawn.  A timer enters
\* the heap only by being scheduled, with a fresh token; it is popped only
\* out of the heap and delivered or skipped only as the first of the popped
\* ones, which it then leaves: so a timer once delivered or skipped is never
\* in the heap again and is never delivered again.  Within a handling no
\* timer is delivered twice, every timer that had expired at the start has
\* left the heap when the drain is over, and every timer that had not stays
\* in the heap as it was (same id, deadline and token) to the end.
C24_AtMostOnce ==
    /\ [](/\ Cardinality(HeapTokens) = Cardinality(timers)
           /\ Cardinality(PoppedTokens) = Len(expired_timers)
           /\ Cardinality(HandledTokens) = Len(Handled)
           /\ HeapTokens \cap PoppedTokens = {}
           /\ HeapTokens \cap HandledTokens = {}
           /\ PoppedTokens \cap HandledTokens = {}
           /\ \A k \in HeapTokens \cup PoppedTokens \cup HandledTokens :
                 k < next_token)
    /\ [](hpc \in {"deliver", "deferred"} =>
            /\ Expired0 \cap timers = {}
            /\ {t.token : t \in Expired0} = PoppedTokens \cup HandledTokens)
    /\ [](hpc # "idle" => Pending0 \subseteq timers)
    /\ [][/\ next_token' >= next_token
          /\ HeapTokens' \subseteq HeapTokens \cup {next_token}
          /\ PoppedTokens' \subseteq PoppedTokens \cup HeapTokens
          /\ Len(Handled') > Len(Handled) =>
                /\ Len(Handled') = Len(Handled) + 1
                /\ expired_timers # <<>>
                /\ Handled'[Len(Handled')].token = Head(expired_timers).token
                /\ expired_timers' = Tail(expired_timers)
          /\ HandlingEnds => (Pending0 \subseteq timers' /\ Expired0 \cap timers' = {})]_vars

\* C24's case: a handling about to return that delivered one expired timer
\* and skipped another (its window had gone), while a third timer, not
\* expired, is in the heap as before.
C24_Witness ==
    /\ hpc = "deferred"
    /\ snapshot = <<>>
    /\ cb = "none"
    /\ Len(Delivered) = 1
    /\ Len(Handled) = 2
    /\ Cardinality(Pending0) = 1
    /\ timers = Pending0

\* The delay of the wake-up that the step arms.
ArmedDelay == timer_handle'[Len(timer_handle')].delay

\* The earliest deadline of the heap.
EarliestDeadline == SetMin({t.deadline : t \in timers})

\* C25 as stated: when a handling arms the wake-up, the earliest pending
\* deadline is not before the handling's `now`, whatever the callbacks have
\* scheduled, so that the delay (earliest deadline - now) is not negative.
C25_DeadlineNotBeforeNow ==
    [][(HandlingEnds /\ timers # {}) =>
          /\ EarliestDeadline >= now
          /\ ArmedDelay = EarliestDeadline - now
          /\ ArmedDelay >= 0]_vars

\* C25 as amended: the delay armed is never negative, because the
\* subtraction saturates: it is (earliest deadline - now) when the earliest
\* pending deadline is not before `now`, and zero when it is.  The timers
\* the drain left in the heap are never before `now`; the earliest pending
\* deadline is before `now` only when a callback of this handling scheduled
\* a timer with such a deadline.
C25_DelaySaturates ==
    /\ [][(HandlingEnds /\ timers # {}) =>
              /\ ArmedDelay >= 0
              /\ ArmedDelay = (IF EarliestDeadline >= now
                               THEN EarliestDeadline - now ELSE 0)
              /\ EarliestDeadline < now =>
                    \E t \in ScheduledInHandling : t.deadline = EarliestDeadline]_vars
    /\ [](hpc \in {"deliver", "deferred"} =>
            \A t \in timers \ ScheduledInHandling : t.deadline >= now)

\* C25's case: the drain left a timer that has not expired, and a callback
\* of the handling scheduled a timer with a deadline before `now`: the
\* handling is about to arm the wake-up with the delay zero.
C25_Witness ==
    /\ hpc = "deferred"
    /\ snapshot = <<>>
    /\ cb = "none"
    /\ timers \ ScheduledInHandling # {}
    /\ EarliestDeadline < now
    /\ ENABLED (HteRearm /\ ArmedDelay = 0)

====
